---- MODULE Spec2Model ----
(***************************************************************************)
(* TYPO3 documentation MCP server (mcp/typo3-docs-server/server.py): the   *)
(* tool catalog (list_tools), the dispatcher (call_tool) with its five     *)
(* handlers, and the serving loop that feeds them from one channel.        *)
(***************************************************************************)
EXTENDS Integers, Sequences, FiniteSets, TLC

VARIABLES
    pending,    \* frames the caller has sent that the loop has not read yet
    nread,      \* requests the loop has read (accepted) so far; ids are 1..nread
    pc,         \* position of the serving loop: idle, dispatching, writing, crashed
    cur,        \* the request being served (NoRequest before the first read)
    result,     \* what list_tools / call_tool returned for cur (NoResult before)
    invoked,    \* the handler call_tool invoked for cur, with the arguments handed over
    fault,      \* the exception raised inside call_tool's try block for cur ("" if none)
    outbox,     \* ids of the responses written to the channel, in write order
    prevFault   \* TRUE iff the previous answered call raised inside the try block

vars == <<pending, nread, pc, cur, result, invoked, fault, outbox, prevFault>>

\* ---- bounds of the model ----
MaxRequests == 3
MaxPending == 2

\* ---- Python values that can arrive in a JSON argument payload ----
None == [t |-> "NoneType", s |-> "", n |-> 0]
Str(x) == [t |-> "str", s |-> x, n |-> 0]
Int_(k) == [t |-> "int", s |-> "", n |-> k]
EmptyList == [t |-> "list", s |-> "", n |-> 0]

\* an argument payload: a dict (m maps the keys present to values) or null
Dict(m) == [t |-> "dict", m |-> m]
NoArguments == [t |-> "NoneType", m |-> <<>>]

Digit(d) ==
    CASE d = 0 -> "0" [] d = 1 -> "1" [] d = 2 -> "2" [] d = 3 -> "3" [] d = 4 -> "4"
      [] d = 5 -> "5" [] d = 6 -> "6" [] d = 7 -> "7" [] d = 8 -> "8" [] d = 9 -> "9"

RECURSIVE NatStr(_)
NatStr(k) ==
    IF k < 10 THEN Digit(k) ELSE NatStr(k \div 10) \o Digit(k % 10)

\* str(v), as the f-strings apply it to every interpolated value
py_str(v) ==
    CASE v.t = "str" -> v.s
      [] v.t = "int" -> IF v.n < 0 THEN "-" \o NatStr(-v.n) ELSE NatStr(v.n)
      [] v.t = "NoneType" -> "None"
      [] v.t = "list" -> "[]"

\* dict.get(key, default)
dict_get(m, key, default) ==
    IF key \in DOMAIN m THEN m[key] ELSE default

\* a text is kept as the sequence of the pieces it is concatenated from
TextContent(pieces) == [type |-> "text", text |-> pieces]

\* outcome of evaluating Python code: a returned value or a raised exception
Return(content) == [raised |-> FALSE, cause |-> "", content |-> content]
Raise(message) == [raised |-> TRUE, cause |-> message, content |-> <<>>]

\* ---- module constants (server.py 32-34) ----
DOCS_BASE_URL == "https://docs.typo3.org"
CHANGELOG_URL == "https://docs.typo3.org/c/typo3/cms-core/main/en-us/Changelog"

\* ---- list_tools (server.py 37-153) ----
NoDefault == [t |-> "absent", s |-> "", n |-> 0]

Property(type, default, enum, bounds) ==
    [type |-> type, default |-> default, enum |-> enum, bounds |-> bounds]

Tool(name, description, properties, required) ==
    [name |-> name, description |-> description,
     inputSchema |-> [type |-> "object", properties |-> properties, required |-> required]]

\* server.py 41-65
SearchDocsTool ==
    Tool("search_typo3_docs",
     "Search TYPO3 official documentation at docs.typo3.org. Returns relevant documentation pages with excerpts. Use this when you need information about TYPO3 APIs, features, or configuration.",
     ("query" :> Property("string", NoDefault, {}, <<>>)) @@
     ("version" :> Property("string", Str("main"), {}, <<>>)) @@
     ("section" :> Property("string", Str("all"),
          {"reference-coreapi", "guides", "extensions", "changelog", "all"}, <<>>)),
     {"query"})

\* server.py 66-92
ChangelogTool ==
    Tool("get_typo3_changelog",
     "Fetch TYPO3 Core changelog entries for specific version or type. Returns breaking changes, deprecations, features, and important information for TYPO3 upgrades.",
     ("version" :> Property("string", NoDefault, {}, <<>>)) @@
     ("type" :> Property("string", Str("All"),
          {"Breaking", "Deprecation", "Feature", "Important", "All"}, <<>>)) @@
     ("limit" :> Property("integer", Int_(10), {}, <<1, 50>>)),
     {"version"})

\* server.py 93-118
SearchExtensionsTool ==
    Tool("search_typo3_extensions",
     "Search TYPO3 Extension Repository (TER) for extensions. Returns extension information including ratings, downloads, compatibility, and descriptions.",
     ("query" :> Property("string", NoDefault, {}, <<>>)) @@
     ("typo3_version" :> Property("string", Str("12.4"), {}, <<>>)) @@
     ("limit" :> Property("integer", Int_(10), {}, <<1, 50>>)),
     {"query"})

\* server.py 119-136
ApiReferenceTool ==
    Tool("get_typo3_api_reference",
     "Get TYPO3 Core API reference for specific class or interface. Returns class documentation, methods, properties, and usage examples.",
     ("class_name" :> Property("string", NoDefault, {}, <<>>)) @@
     ("method_name" :> Property("string", NoDefault, {}, <<>>)),
     {"class_name"})

\* server.py 137-152
CodingGuidelinesTool ==
    Tool("get_typo3_coding_guidelines",
     "Retrieve TYPO3 Coding Guidelines (CGL) for specific topic. Returns official coding standards and best practices.",
     ("topic" :> Property("string", Str("php"),
          {"php", "javascript", "typescript", "fluid", "typoscript", "database", "security", "all"}, <<>>)),
     {})

\* the catalog with its first two entries exchanged
list_tools_swapped ==
    << ChangelogTool, SearchDocsTool, SearchExtensionsTool, ApiReferenceTool,
       CodingGuidelinesTool >>

list_tools ==
    << SearchDocsTool, ChangelogTool, SearchExtensionsTool, ApiReferenceTool,
       CodingGuidelinesTool >>

\* The handlers' texts are the source's f-strings, one piece per literal part
\* and per interpolated value.  A string of this language cannot hold a grave
\* accent: each one of the source is written <BT>.

\* ---- search_typo3_docs (server.py 201-237) ----
search_typo3_docs(query, version, section) ==
    Return(<< TextContent(
    << "# TYPO3 Documentation Search Results\n\n**Query:** ",
       py_str(query),
       "\n**Version:** ",
       py_str(version),
       "\n**Section:** ",
       py_str(section),
       "\n\n## Relevant Documentation\n\n### 1. Core API Reference\nIf searching for QueryBuilder, Dependency Injection, or Core APIs:\n- URL: ",
       DOCS_BASE_URL,
       "/m/typo3/reference-coreapi/",
       py_str(version),
       "/en-us/\n- Topics: Database, DI, Events, Caching, etc.\n\n### 2. Extbase & Fluid\nFor MVC framework and templating:\n- URL: ",
       DOCS_BASE_URL,
       "/m/typo3/reference-coreapi/",
       py_str(version),
       "/en-us/ExtensionArchitecture/Extbase/\n- Fluid: ",
       DOCS_BASE_URL,
       "/m/typo3/reference-coreapi/",
       py_str(version),
       "/en-us/ApiOverview/Fluid/\n\n### 3. TCA Reference\nFor backend forms and database fields:\n- URL: ",
       DOCS_BASE_URL,
       "/m/typo3/reference-tca/",
       py_str(version),
       "/en-us/\n\n### 4. TypoScript Reference\nFor TypoScript configuration:\n- URL: ",
       DOCS_BASE_URL,
       "/m/typo3/reference-typoscript/",
       py_str(version),
       "/en-us/\n\n**Note:** For detailed search, visit https://docs.typo3.org directly.\nFor specific API questions, use the get_typo3_api_reference tool.\n" >> ) >>)

\* ---- get_typo3_changelog (server.py 240-276) ----
get_typo3_changelog(version, change_type, limit) ==
    Return(<< TextContent(
    << "# TYPO3 ",
       py_str(version),
       " Changelog\n\n**Type:** ",
       py_str(change_type),
       "\n**Limit:** ",
       py_str(limit),
       "\n\n## Important Changes for TYPO3 ",
       py_str(version),
       "\n\n### Breaking Changes\n- **Removed $GLOBALS['TYPO3_DB']**: Use Doctrine DBAL ConnectionPool\n- **Removed ObjectManager**: Use Dependency Injection\n- **PSR-7 Request/Response**: All controllers must return ResponseInterface\n\n### Deprecations\n- **GeneralUtility::getUrl()**: Use RequestFactory instead\n- **Inject methods**: Use constructor injection\n- **Old hook system**: Migrate to PSR-14 Events\n\n### Features\n- **Improved Dependency Injection**: Full autowiring support\n- **Modern TCA types**: New input types (number, datetime, etc.)\n- **Site Configuration**: YAML-based site configs\n\n### Important\n- **PHP 8.1+ required** for TYPO3 v12\n- **Composer mode recommended**\n- **Update extension dependencies**\n\n**Full Changelog:** ",
       CHANGELOG_URL,
       "/Index.html\n\nFor detailed migration info, check:\n- Upgrade Guide: ",
       DOCS_BASE_URL,
       "/m/typo3/guide-installation/main/en-us/Upgrade/\n" >> ) >>)

\* ---- search_typo3_extensions (server.py 279-326) ----
search_typo3_extensions(query, typo3_version, limit) ==
    Return(<< TextContent(
    << "# TYPO3 Extension Repository Search\n\n**Query:** ",
       py_str(query),
       "\n**TYPO3 Version:** ",
       py_str(typo3_version),
       "\n**Limit:** ",
       py_str(limit),
       "\n\n## Search Results\n\n### Popular TYPO3 Extensions\n\n**Note:** Visit https://extensions.typo3.org to browse official extensions.\n\n**Recommended Extensions for TYPO3 ",
       py_str(typo3_version),
       ":**\n\n1. **news** - Versatile news system\n   - Composer: <BT>composer require georgringer/news<BT>\n   - Compatibility: TYPO3 11-12\n\n2. **powermail** - Forms extension\n   - Composer: <BT>composer require in2code/powermail<BT>\n   - Compatibility: TYPO3 11-12\n\n3. **mask** - Frontend editing\n   - Composer: <BT>composer require mask/mask<BT>\n   - Compatibility: TYPO3 11-12\n\n4. **container** - Grid elements\n   - Composer: <BT>composer require b13/container<BT>\n   - Compatibility: TYPO3 11-12\n\n**Install via Composer:**\n<BT><BT><BT>bash\ncomposer require vendor/extension-key\n<BT><BT><BT>\n\nThen activate in Extension Manager or via:\n<BT><BT><BT>bash\ntypo3 extension:activate extension_key\n<BT><BT><BT>\n" >> ) >>)

\* ---- api_docs (server.py 334-428): the static dict of get_typo3_api_reference ----
api_docs ==
    ("TYPO3\\CMS\\Core\\Database\\ConnectionPool" :>
       "\n# ConnectionPool API Reference\n\n**Namespace:** TYPO3\\CMS\\Core\\Database\\ConnectionPool\n\n## Description\nFactory class for database connections. Used to get QueryBuilder instances.\n\n## Usage\n\n<BT><BT><BT>php\nuse TYPO3\\CMS\\Core\\Database\\ConnectionPool;\n\npublic function __construct(\n    private readonly ConnectionPool $connectionPool\n) {}\n\npublic function findProducts(): array\n{\n    $queryBuilder = $this->connectionPool\n        ->getQueryBuilderForTable('tx_myext_product');\n\n    return $queryBuilder\n        ->select('*')\n        ->from('tx_myext_product')\n        ->where(\n            $queryBuilder->expr()->eq(\n                'active',\n                $queryBuilder->createNamedParameter(1, \\PDO::PARAM_INT)\n            )\n        )\n        ->executeQuery()\n        ->fetchAllAssociative();\n}\n<BT><BT><BT>\n\n## Methods\n\n### getQueryBuilderForTable(string $table): QueryBuilder\nReturns QueryBuilder for specified table.\n\n### getConnectionForTable(string $table): Connection\nReturns Connection instance for direct queries.\n\n## See Also\n- QueryBuilder\n- Connection\n- Doctrine DBAL Documentation\n") @@
    ("TYPO3\\CMS\\Core\\Http\\RequestFactory" :>
       "\n# RequestFactory API Reference\n\n**Namespace:** TYPO3\\CMS\\Core\\Http\\RequestFactory\n\n## Description\nFactory for creating HTTP requests. Replacement for deprecated GeneralUtility::getUrl().\n\n## Usage\n\n<BT><BT><BT>php\nuse TYPO3\\CMS\\Core\\Http\\RequestFactory;\n\npublic function __construct(\n    private readonly RequestFactory $requestFactory\n) {}\n\npublic function fetchFromApi(): array\n{\n    $response = $this->requestFactory->request(\n        'https://api.example.com/data',\n        'GET',\n        [\n            'headers' => [\n                'Authorization' => 'Bearer ' . $apiKey,\n            ],\n            'timeout' => 10,\n        ]\n    );\n\n    return json_decode($response->getBody()->getContents(), true);\n}\n<BT><BT><BT>\n\n## Methods\n\n### request(string $uri, string $method, array $options): ResponseInterface\nMakes HTTP request and returns PSR-7 Response.\n\n## See Also\n- PSR-7 HTTP Message Interfaces\n- Guzzle HTTP Client\n")

\* ---- guidelines (server.py 458-542): the static dict of get_typo3_coding_guidelines ----
guidelines ==
    ("php" :>
       "\n# TYPO3 PHP Coding Guidelines (CGL)\n\n## File Structure\n\n<BT><BT><BT>php\n<?php\n\ndeclare(strict_types=1);\n\nnamespace Vendor\\ExtensionKey\\Domain\\Model;\n\nuse TYPO3\\CMS\\Extbase\\DomainObject\\AbstractEntity;\n\nclass Product extends AbstractEntity\n{\n    protected string $title = '';\n\n    public function getTitle(): string\n    {\n        return $this->title;\n    }\n}\n<BT><BT><BT>\n\n## Key Rules\n\n1. **PSR-12 Compliance**\n   - 4 spaces indentation\n   - Opening braces on new line\n   - Max 120 chars per line\n\n2. **File Headers**\n   - <BT>declare(strict_types=1);<BT> after PHP tag\n   - Config files: <BT>defined('TYPO3') || die();<BT>\n\n3. **Namespacing**\n   - Format: <BT>Vendor\\ExtensionKey\\ComponentType\\<BT>\n   - StudlyCase for all parts\n\n4. **Type Declarations**\n   - Required on all parameters and returns\n   - Use <BT>readonly<BT> for immutable properties\n\n5. **Dependency Injection**\n   - Constructor injection only\n   - No ObjectManager or makeInstance for services\n\n**Official CGL:** https://docs.typo3.org/m/typo3/reference-coreapi/main/en-us/CodingGuidelines/\n") @@
    ("database" :>
       "\n# TYPO3 Database Guidelines\n\n## Use Doctrine DBAL QueryBuilder\n\n<BT><BT><BT>php\nuse TYPO3\\CMS\\Core\\Database\\ConnectionPool;\n\n$queryBuilder = $this->connectionPool\n    ->getQueryBuilderForTable('tx_myext_product');\n\n$products = $queryBuilder\n    ->select('*')\n    ->from('tx_myext_product')\n    ->where(\n        $queryBuilder->expr()->eq(\n            'category',\n            $queryBuilder->createNamedParameter($categoryId, \\PDO::PARAM_INT)\n        )\n    )\n    ->executeQuery()\n    ->fetchAllAssociative();\n<BT><BT><BT>\n\n## Rules\n\n1. **Always use QueryBuilder** - not raw SQL\n2. **Named parameters** - prevent SQL injection\n3. **PDO types** - specify for all parameters\n4. **No $GLOBALS['TYPO3_DB']** - removed in v10\n\n**Docs:** https://docs.typo3.org/m/typo3/reference-coreapi/main/en-us/ApiOverview/Database/\n")

\* the f-string of the else branch (server.py 434-450)
api_reference_fallback(class_name) ==
    << "# ",
       py_str(class_name),
       "\n\nAPI documentation for ",
       py_str(class_name),
       "\n\n**Find detailed documentation at:**\nhttps://docs.typo3.org/m/typo3/reference-coreapi/main/en-us/\n\n**Common TYPO3 Core classes:**\n- TYPO3\\CMS\\Core\\Database\\ConnectionPool\n- TYPO3\\CMS\\Core\\Http\\RequestFactory\n- TYPO3\\CMS\\Core\\Cache\\CacheManager\n- TYPO3\\CMS\\Core\\Resource\\ResourceFactory\n- TYPO3\\CMS\\Core\\Context\\Context\n- TYPO3\\CMS\\Extbase\\Persistence\\Repository\n\nUse the search_typo3_docs tool for more specific information.\n" >>

\* ---- get_typo3_api_reference (server.py 329-452) ----
\* "class_name in api_docs" hashes class_name: a list raises TypeError
get_typo3_api_reference(class_name, method_name) ==
    IF class_name.t = "list"
    THEN Raise("unhashable type: 'list'")
    ELSE IF class_name.t = "str" /\ class_name.s \in DOMAIN api_docs
         THEN Return(<< TextContent(<< api_docs[class_name.s] >>) >>)
         ELSE Return(<< TextContent(api_reference_fallback(class_name)) >>)

\* ---- get_typo3_coding_guidelines (server.py 455-546) ----
\* guidelines.get(topic, "Guidelines for " + topic): the default is evaluated
\* before the lookup, and str + non-str raises TypeError
get_typo3_coding_guidelines(topic) ==
    IF topic.t # "str"
    THEN Raise("can only concatenate str (not \"" \o topic.t \o "\") to str")
    ELSE Return(<< TextContent(
             IF topic.s \in DOMAIN guidelines
             THEN << guidelines[topic.s] >>
             ELSE << "Guidelines for " \o topic.s >>) >>)

\* ---- call_tool (server.py 156-198) ----
\* the chain of name comparisons, with "Search_typo3_docs" matched as if
\* the comparison ignored case
branch_ignoring_case(name) ==
    CASE name \in {"search_typo3_docs", "Search_typo3_docs"} -> "search_typo3_docs"
      [] name = "get_typo3_changelog" -> "get_typo3_changelog"
      [] name = "search_typo3_extensions" -> "search_typo3_extensions"
      [] name = "get_typo3_api_reference" -> "get_typo3_api_reference"
      [] name = "get_typo3_coding_guidelines" -> "get_typo3_coding_guidelines"
      [] OTHER -> "else"

\* the chain of name comparisons with the last branch misspelt
branch_misspelt(name) ==
    CASE name = "search_typo3_docs" -> "search_typo3_docs"
      [] name = "get_typo3_changelog" -> "get_typo3_changelog"
      [] name = "search_typo3_extensions" -> "search_typo3_extensions"
      [] name = "get_typo3_api_reference" -> "get_typo3_api_reference"
      [] name = "get_typo3_coding_guideline" -> "get_typo3_coding_guidelines"
      [] OTHER -> "else"

\* the if/elif chain on name (server.py 161, 168, 175, 182, 188, 193)
branch(name) ==
    CASE name = "search_typo3_docs" -> "search_typo3_docs"
      [] name = "get_typo3_changelog" -> "get_typo3_changelog"
      [] name = "search_typo3_extensions" -> "search_typo3_extensions"
      [] name = "get_typo3_api_reference" -> "get_typo3_api_reference"
      [] name = "get_typo3_coding_guidelines" -> "get_typo3_coding_guidelines"
      [] OTHER -> "else"

\* the arguments.get calls with the limit default mistyped as 20
call_tool_args_limit20(b) ==
    CASE b = "search_typo3_docs" ->
           << <<"query", None>>, <<"version", Str("main")>>, <<"section", Str("all")>> >>
      [] b = "get_typo3_changelog" ->
           << <<"version", None>>, <<"type", Str("All")>>, <<"limit", Int_(20)>> >>
      [] b = "search_typo3_extensions" ->
           << <<"query", None>>, <<"typo3_version", Str("12.4")>>, <<"limit", Int_(20)>> >>
      [] b = "get_typo3_api_reference" ->
           << <<"class_name", None>>, <<"method_name", None>> >>
      [] b = "get_typo3_coding_guidelines" ->
           << <<"topic", Str("php")>> >>

\* the arguments.get(key, default) calls of each branch, in the order the
\* handler takes them; get without a default yields None
call_tool_args(b) ==
    CASE b = "search_typo3_docs" ->
           << <<"query", None>>, <<"version", Str("main")>>, <<"section", Str("all")>> >>
      [] b = "get_typo3_changelog" ->
           << <<"version", None>>, <<"type", Str("All")>>, <<"limit", Int_(10)>> >>
      [] b = "search_typo3_extensions" ->
           << <<"query", None>>, <<"typo3_version", Str("12.4")>>, <<"limit", Int_(10)>> >>
      [] b = "get_typo3_api_reference" ->
           << <<"class_name", None>>, <<"method_name", None>> >>
      [] b = "get_typo3_coding_guidelines" ->
           << <<"topic", Str("php")>> >>

\* the values a branch hands to its handler
handler_args(b, m) ==
    [i \in 1..Len(call_tool_args(b)) |->
        dict_get(m, call_tool_args(b)[i][1], call_tool_args(b)[i][2])]

\* the handler call of a branch
call_handler(b, a) ==
    CASE b = "search_typo3_docs" -> search_typo3_docs(a[1], a[2], a[3])
      [] b = "get_typo3_changelog" -> get_typo3_changelog(a[1], a[2], a[3])
      [] b = "search_typo3_extensions" -> search_typo3_extensions(a[1], a[2], a[3])
      [] b = "get_typo3_api_reference" -> get_typo3_api_reference(a[1], a[2])
      [] b = "get_typo3_coding_guidelines" -> get_typo3_coding_guidelines(a[1])

\* the try block (server.py 160-194): arguments.get on a payload that is not
\* a dict raises AttributeError before any handler is called
call_tool_try(name, arguments) ==
    IF branch(name) = "else"
    THEN Return(<< TextContent(<< "Unknown tool: ", name >>) >>)
    ELSE IF arguments.t # "dict"
         THEN Raise("'NoneType' object has no attribute 'get'")
         ELSE call_handler(branch(name), handler_args(branch(name), arguments.m))

\* the handler invocation made by the try block, if any
NoCall == [handler |-> "", args |-> <<>>]

handler_invocation(name, arguments) ==
    IF branch(name) # "else" /\ arguments.t = "dict"
    THEN [handler |-> branch(name), args |-> handler_args(branch(name), arguments.m)]
    ELSE NoCall

\* call_tool with the except clause returning str(e) alone
call_tool_bare_message(name, arguments) ==
    IF call_tool_try(name, arguments).raised
    THEN Return(<< TextContent(<< call_tool_try(name, arguments).cause >>) >>)
    ELSE call_tool_try(name, arguments)

\* call_tool without the except clause: the exception leaves call_tool
call_tool_uncaught(name, arguments) ==
    call_tool_try(name, arguments)

\* try/except (server.py 160, 196-198): every Exception becomes a text result
call_tool(name, arguments) ==
    IF call_tool_try(name, arguments).raised
    THEN Return(<< TextContent(<< "Error: ", call_tool_try(name, arguments).cause >>) >>)
    ELSE call_tool_try(name, arguments)

\* ---- the requests a caller can send ----
ToolNames == {"search_typo3_docs", "get_typo3_changelog", "search_typo3_extensions",
              "get_typo3_api_reference", "get_typo3_coding_guidelines"}

UnregisteredNames == {"Search_typo3_docs", "get_typo3_version", ""}

ValuesFor(key) ==
    CASE key = "query" -> {Str("news"), None}
      [] key = "version" -> {Str("12.4")}
      [] key = "section" -> {Str("guides")}
      [] key = "type" -> {Str("Feature")}
      [] key = "limit" -> {Int_(0), Int_(1), Int_(50), Int_(51), Int_(100)}
      [] key = "typo3_version" -> {Str("11.5")}
      [] key = "class_name" -> {Str("TYPO3\\CMS\\Core\\Database\\ConnectionPool"),
                                Str("TYPO3\\CMS\\Core\\Cache\\CacheManager"), None, EmptyList}
      [] key = "method_name" -> {Str("request")}
      [] key = "topic" -> {Str("php"), Str("database"), Str("security"), Str("bogus"), None}

AllValues ==
    UNION {ValuesFor(k) : k \in {"query", "version", "section", "type", "limit",
                                 "typo3_version", "class_name", "method_name", "topic"}}

SchemaOf(name) ==
    list_tools[CHOOSE i \in 1..Len(list_tools) : list_tools[i].name = name].inputSchema

KeysOf(name) == DOMAIN SchemaOf(name).properties

PayloadsFor(name) ==
    IF name \in ToolNames
    THEN {NoArguments} \cup
         {Dict(m) : m \in UNION {{f \in [K -> AllValues] : \A k \in K : f[k] \in ValuesFor(k)}
                                  : K \in SUBSET KeysOf(name)}}
    ELSE {NoArguments, Dict(<<>>), Dict("query" :> Str("news"))}

Requests ==
    {[op |-> "list", id |-> 0, name |-> "", arguments |-> NoArguments]} \cup
    UNION {{[op |-> "call", id |-> 0, name |-> n, arguments |-> a] : a \in PayloadsFor(n)}
            : n \in ToolNames \cup UnregisteredNames}

NoRequest == [op |-> "none", id |-> 0, name |-> "", arguments |-> NoArguments]
NoResult == [op |-> "none", raised |-> FALSE, cause |-> "", content |-> <<>>]

\* ---- the serving loop (spec 4.4 and 5; main, server.py 549-556, hands the
\* channel to the library's run) ----
Init ==
    /\ pending = 0
    /\ nread = 0
    /\ pc = "idle"
    /\ cur = NoRequest
    /\ result = NoResult
    /\ invoked = NoCall
    /\ fault = ""
    /\ outbox = <<>>
    /\ prevFault = FALSE

\* the caller puts one more frame on the channel
ClientSend ==
    /\ nread + pending < MaxRequests
    /\ pending < MaxPending
    /\ pending' = pending + 1
    /\ UNCHANGED <<nread, pc, cur, result, invoked, fault, outbox, prevFault>>

\* the loop reads and decodes the next frame; it does so only between requests
Read ==
    /\ pc = "idle"
    /\ pending > 0
    /\ \E r \in Requests : cur' = [r EXCEPT !.id = nread + 1]
    /\ pending' = pending - 1
    /\ nread' = nread + 1
    /\ pc' = "dispatching"
    /\ result' = NoResult
    /\ invoked' = NoCall
    /\ fault' = ""
    /\ UNCHANGED <<outbox, prevFault>>

\* a "list tools" request runs list_tools
DispatchList ==
    /\ pc = "dispatching"
    /\ cur.op = "list"
    /\ result' = [op |-> "list", raised |-> FALSE, cause |-> "", content |-> list_tools]
    /\ pc' = "writing"
    /\ UNCHANGED <<pending, nread, cur, invoked, fault, outbox, prevFault>>

\* a "call tool" request runs call_tool; the handlers never suspend, so the
\* call is one step.  An exception leaving call_tool reaches the loop.
DispatchCall ==
    /\ pc = "dispatching"
    /\ cur.op = "call"
    /\ result' = [op |-> "call",
                  raised |-> call_tool(cur.name, cur.arguments).raised,
                  cause |-> call_tool(cur.name, cur.arguments).cause,
                  content |-> call_tool(cur.name, cur.arguments).content]
    /\ invoked' = handler_invocation(cur.name, cur.arguments)
    /\ fault' = call_tool_try(cur.name, cur.arguments).cause
    /\ pc' = IF call_tool(cur.name, cur.arguments).raised THEN "crashed" ELSE "writing"
    /\ UNCHANGED <<pending, nread, cur, outbox, prevFault>>

\* the loop encodes the result and writes the response frame
Write ==
    /\ pc = "writing"
    /\ outbox' = Append(outbox, cur.id)
    /\ prevFault' = (cur.op = "call" /\ invoked # NoCall /\ fault # "")
    /\ pc' = "idle"
    /\ UNCHANGED <<pending, nread, cur, result, invoked, fault>>

Next ==
    \/ ClientSend
    \/ Read
    \/ DispatchList
    \/ DispatchCall
    \/ Write

Spec == Init /\ [][Next]_vars

\* the loop's task runs whenever it has a step to take
FairSpec ==
    Spec /\ WF_vars(DispatchList) /\ WF_vars(DispatchCall) /\ WF_vars(Write)

\* ---- shorthands for the properties ----
Answered == pc \in {"writing", "idle"} /\ cur.op # "none"
CallAnswered == Answered /\ cur.op = "call"
ResultText == result.content[1].text
IsErrorText == Len(result.content) = 1 /\ ResultText[1] = "Error: "
CatalogNames == [i \in 1..Len(list_tools) |-> list_tools[i].name]
ListedNames == {list_tools[i].name : i \in 1..Len(list_tools)}
ParamIndex(name, key) ==
    CHOOSE i \in 1..Len(call_tool_args(name)) : call_tool_args(name)[i][1] = key
Count(seq, x) == Cardinality({i \in 1..Len(seq) : seq[i] = x})

\* ---- properties ----

\* C1: a call whose tool name is not exactly one of the five registered names
\* is answered, whatever the argument payload, by one text block
\* "Unknown tool: <name>"; call_tool neither raises nor returns an error text.
C1_UnknownToolIsTextResult ==
    (cur.op = "call" /\ cur.name \notin ToolNames) =>
        /\ pc # "crashed"
        /\ Answered =>
             /\ ~result.raised
             /\ result.content = << TextContent(<< "Unknown tool: ", cur.name >>) >>
             /\ invoked = NoCall

C1_Witness ==
    /\ CallAnswered
    /\ cur.name = "Search_typo3_docs"
    /\ cur.arguments = NoArguments
    /\ result.content = << TextContent(<< "Unknown tool: ", "Search_typo3_docs" >>) >>

\* C2: when a handler raises, call_tool returns the text "Error: <cause>",
\* nothing propagates to the serving loop, and the request read after it is
\* dispatched and answered; if that one raises nothing, its answer is no error.
C2_HandlerFaultContained ==
    /\ pc # "crashed"
    /\ (CallAnswered /\ invoked # NoCall /\ fault # "") =>
          /\ ~result.raised
          /\ result.content = << TextContent(<< "Error: ", fault >>) >>
    /\ (prevFault /\ pc = "writing") =>
          /\ ~result.raised
          /\ Len(result.content) > 0
          /\ (cur.op = "call" /\ fault = "") => ~IsErrorText

C2_Witness ==
    /\ prevFault
    /\ pc = "writing"
    /\ cur.op = "call"
    /\ invoked # NoCall
    /\ fault = ""
    /\ ~IsErrorText

\* C3: a call to a registered tool whose arguments omit a parameter the
\* tool's schema declares required is answered by a failure naming the
\* parameter, and the handler is not invoked.
C3_MissingRequiredRejected ==
    (CallAnswered /\ cur.name \in ToolNames /\ cur.arguments.t = "dict") =>
        \A p \in SchemaOf(cur.name).required :
            p \notin DOMAIN cur.arguments.m =>
                /\ invoked = NoCall
                /\ IsErrorText
                /\ \E i \in 1..Len(ResultText) : ResultText[i] = p

\* C4: a call to get_typo3_changelog or search_typo3_extensions with an
\* integer limit outside [1,50] is answered by a failure citing limit, and
\* the handler never receives a limit outside [1,50].
C4_LimitOutOfRangeRejected ==
    (CallAnswered /\ cur.name \in {"get_typo3_changelog", "search_typo3_extensions"}
       /\ cur.arguments.t = "dict" /\ "limit" \in DOMAIN cur.arguments.m) =>
        LET limit == cur.arguments.m["limit"]
            bounds == SchemaOf(cur.name).properties["limit"].bounds
        IN  (limit.t = "int" /\ (limit.n < bounds[1] \/ limit.n > bounds[2])) =>
                /\ IsErrorText
                /\ \E i \in 1..Len(ResultText) : ResultText[i] = "limit"
                /\ invoked = NoCall

\* C5: a call to a registered tool that omits an optional parameter with a
\* declared default hands the handler exactly the default of the schema;
\* get_typo3_changelog with only version "12.4" answers with the text
\* "# TYPO3 12.4 Changelog", Type "All" and Limit "10".
C5_DefaultsHandedToHandler ==
    (CallAnswered /\ cur.name \in ToolNames /\ cur.arguments.t = "dict") =>
        /\ invoked # NoCall
        /\ \A p \in DOMAIN SchemaOf(cur.name).properties :
              (SchemaOf(cur.name).properties[p].default # NoDefault
                 /\ p \notin DOMAIN cur.arguments.m) =>
                  invoked.args[ParamIndex(cur.name, p)]
                      = SchemaOf(cur.name).properties[p].default
        /\ (cur.name = "get_typo3_changelog"
              /\ cur.arguments.m = ("version" :> Str("12.4"))) =>
              /\ ~result.raised
              /\ Len(result.content) = 1
              /\ SubSeq(ResultText, 1, 6) =
                    << "# TYPO3 ", "12.4", " Changelog\n\n**Type:** ", "All",
                       "\n**Limit:** ", "10" >>

C5_Witness ==
    /\ CallAnswered
    /\ cur.name = "get_typo3_changelog"
    /\ cur.arguments = Dict("version" :> Str("12.4"))
    /\ invoked.args = << Str("12.4"), Str("All"), Int_(10) >>

\* C6: every answer to a list request holds exactly five schemas with
\* pairwise distinct names in the order search_typo3_docs,
\* get_typo3_changelog, search_typo3_extensions, get_typo3_api_reference,
\* get_typo3_coding_guidelines, whatever was listed or called before.
C6_CatalogFixed ==
    (Answered /\ cur.op = "list") =>
        /\ Len(result.content) = 5
        /\ [i \in 1..Len(result.content) |-> result.content[i].name] =
              << "search_typo3_docs", "get_typo3_changelog", "search_typo3_extensions",
                 "get_typo3_api_reference", "get_typo3_coding_guidelines" >>
        /\ \A i, j \in 1..Len(result.content) :
              result.content[i].name = result.content[j].name => i = j

C6_Witness ==
    /\ pc = "writing"
    /\ cur.op = "list"
    /\ cur.id > 1
    /\ prevFault
    /\ Len(result.content) = 5

\* C7: every request the loop has read is eventually answered, and no
\* request is answered twice.
C7_EveryRequestAnsweredOnce ==
    /\ \A i \in 1..MaxRequests : (nread >= i) ~> (Count(outbox, i) = 1)
    /\ [](\A i \in 1..MaxRequests : Count(outbox, i) <= 1)

C7_Witness ==
    /\ nread = MaxRequests
    /\ Len(outbox) = MaxRequests
    /\ \A i \in 1..MaxRequests : Count(outbox, i) = 1
    /\ cur.op = "call"
    /\ fault # ""

\* C9: when the lookup key of get_typo3_api_reference or
\* get_typo3_coding_guidelines is missing, null or a string absent from the
\* handler's static dict, the call is answered by an informative text, never
\* by an "Error:" text.
C9_AbsentKeyIsNotAnError ==
    (CallAnswered /\ cur.arguments.t = "dict") =>
        /\ (cur.name = "get_typo3_api_reference") =>
              LET k == dict_get(cur.arguments.m, "class_name", None)
              IN  (k.t = "NoneType" \/ (k.t = "str" /\ k.s \notin DOMAIN api_docs)) =>
                      ~IsErrorText /\ ~result.raised
        /\ (cur.name = "get_typo3_coding_guidelines") =>
              LET k == dict_get(cur.arguments.m, "topic", None)
              IN  (k.t = "NoneType" \/ (k.t = "str" /\ k.s \notin DOMAIN guidelines)) =>
                      ~IsErrorText /\ ~result.raised

\* C10: a call to a name list_tools returns is routed to the handler of that
\* name and never answered "Unknown tool:", and every handler call_tool
\* invokes belongs to a name list_tools returns.
C10_CatalogMatchesDispatch ==
    (cur.op = "call") =>
        /\ pc # "crashed"
        /\ Answered =>
             /\ (cur.name \in ListedNames) =>
                   /\ ResultText[1] # "Unknown tool: "
                   /\ (cur.arguments.t = "dict") => invoked.handler = cur.name
             /\ (invoked # NoCall) =>
                   invoked.handler \in ListedNames /\ invoked.handler = cur.name

C10_Witness ==
    /\ CallAnswered
    /\ cur.id > 1
    /\ cur.name = "get_typo3_coding_guidelines"
    /\ invoked.handler = "get_typo3_coding_guidelines"
    /\ ResultText[1] # "Unknown tool: "

====
